---- MODULE Spec2Model ----
(***************************************************************************)
(* Model of examples/rust_example.rs, the ReliAPI example client.          *)
(*                                                                         *)
(* The program is one async task: main resolves the base URL and the API   *)
(* key, then awaits four demonstrations in turn.  Every `.await` is a      *)
(* suspension point; between two suspension points the task runs without   *)
(* interruption.  The network is the environment: it resolves the future   *)
(* the task is suspended on.                                               *)
(***************************************************************************)
EXTENDS Integers, Sequences, FiniteSets, TLC

VARIABLES
    env,        \* the process environment (three variables), fixed for the run
    url,        \* main's local `url`
    api_key,    \* main's local `api_key`
    pc,         \* position of the task
    request,    \* the local `request` struct of the running demonstration
    resp,       \* the local `resp` (response head) of the running demonstration
    fut,        \* the future the task is suspended on
    out,        \* standard output, one entry per println!
    sent,       \* the requests put on the wire, in order
    net,        \* per request slot: "unsent", "open" or "closed"
    now,        \* the clock read by chrono::Utc::now().timestamp()
    outcome     \* history: how each request slot ended for the task

vars == <<env, url, api_key, pc, request, resp, fut, out, sent, net, now, outcome>>

----------------------------------------------------------------------------
(* Bounds of the model *)

\* timestamps range over 1..MaxClock
MaxClock == 2

(* Program constants *)
HttpCacheTtl == 300
LlmCacheTtl == 3600
LlmMaxTokens == 100
ErrorMaxTokens == 100000

\* The five request slots, in program order:
\* 1 HTTP proxy, 2 LLM proxy, 3 first cache call, 4 second cache call, 5 error path
Slots == 1..5

----------------------------------------------------------------------------
(* Option<T> and Result<T, E> *)

None == [some |-> FALSE]
Some(x) == [some |-> TRUE, v |-> x]

Ok(x) == [ok |-> TRUE, v |-> x]
Err(e) == [ok |-> FALSE, e |-> e]

----------------------------------------------------------------------------
(* serde_json::Value *)

JNull == [t |-> "null"]
JBool(b) == [t |-> "bool", b |-> b]
JNum(n) == [t |-> "num", n |-> n]
JStr(s) == [t |-> "str", s |-> s]
JArr(a) == [t |-> "arr", a |-> a]
JObj(o) == [t |-> "obj", o |-> o]

\* Value::get(&str): Some(member) on an object that has the key, None otherwise
GetKey(v, key) ==
    IF v.t = "obj" /\ key \in DOMAIN v.o THEN Some(v.o[key]) ELSE None

\* Value::as_array / Value::as_str
AsArray(v) == IF v.t = "arr" THEN Some(v.a) ELSE None
AsStr(v) == IF v.t = "str" THEN Some(v.s) ELSE None

\* <[Value]>::get(0)
GetIndex0(a) == IF Len(a) >= 1 THEN Some(a[1]) ELSE None

----------------------------------------------------------------------------
(* Configuration: get_reliapi_url, get_api_key *)

EnvNames == {"RELIAPI_URL", "RAPIDAPI_KEY", "RELIAPI_API_KEY"}

Unset == [st |-> "unset"]
NotUnicode == [st |-> "notunicode"]
SetTo(s) == [st |-> "set", v |-> s]

\* std::env::var: Ok(value) when the variable is present and valid Unicode,
\* Err(NotPresent) or Err(NotUnicode) otherwise
EnvVar(e, name) ==
    IF e[name].st = "set" THEN Ok(e[name].v) ELSE Err(e[name].st)

DefaultUrl == "https://reliapi.kikuai.dev"
PlaceholderKey == "your-api-key"

get_reliapi_url(e) ==
    LET r == EnvVar(e, "RELIAPI_URL")
    IN  IF r.ok THEN r.v ELSE DefaultUrl

\* a variant that consults the fallback variable first
get_api_key_fallback_first(e) ==
    LET r1 == EnvVar(e, "RELIAPI_API_KEY")
        r2 == IF r1.ok THEN r1 ELSE EnvVar(e, "RAPIDAPI_KEY")
    IN  IF r2.ok THEN r2.v ELSE PlaceholderKey

get_api_key(e) ==
    LET r1 == EnvVar(e, "RAPIDAPI_KEY")
        r2 == IF r1.ok THEN r1 ELSE EnvVar(e, "RELIAPI_API_KEY")
    IN  IF r2.ok THEN r2.v ELSE PlaceholderKey

----------------------------------------------------------------------------
(* Request types and their serde::Serialize implementations *)

LLMRequiredFields == {"target", "messages", "model"}
LLMOptionalFields == {"max_tokens", "temperature", "stream", "idempotency_key", "cache"}

HTTPRequiredFields == {"target", "method", "path"}
HTTPOptionalFields == {"headers", "query", "body", "idempotency_key", "cache"}

\* HashMap<String, String> as a JSON object of strings
MapToJson(m) == JObj([k \in DOMAIN m |-> JStr(m[k])])

\* Vec<HashMap<String, String>> as a JSON array of objects
MessagesToJson(ms) == JArr([i \in 1..Len(ms) |-> MapToJson(ms[i])])

\* the JSON value of one LLMRequest field holding x
LLMFieldToJson(k, x) ==
    CASE k \in {"target", "model", "idempotency_key"} -> JStr(x)
      [] k = "messages" -> MessagesToJson(x)
      [] k \in {"max_tokens", "cache", "temperature"} -> JNum(x)
      [] k = "stream" -> JBool(x)

\* a variant without skip_serializing_if: an absent field is written as null
SerializeLLMRequestNulls(r) ==
    JObj([k \in LLMRequiredFields \cup LLMOptionalFields |->
            IF k \in LLMRequiredFields THEN LLMFieldToJson(k, r[k])
            ELSE IF r[k].some THEN LLMFieldToJson(k, r[k].v) ELSE JNull])

\* #[derive(Serialize)] struct LLMRequest, every Option field with
\* skip_serializing_if = "Option::is_none"
SerializeLLMRequest(r) ==
    LET keys == LLMRequiredFields \cup {k \in LLMOptionalFields : r[k].some}
    IN  JObj([k \in keys |->
                IF k \in LLMRequiredFields THEN LLMFieldToJson(k, r[k])
                ELSE LLMFieldToJson(k, r[k].v)])

HTTPFieldToJson(k, x) ==
    CASE k \in {"target", "method", "path", "body", "idempotency_key"} -> JStr(x)
      [] k \in {"headers", "query"} -> MapToJson(x)
      [] k = "cache" -> JNum(x)

\* #[derive(Serialize)] struct HTTPRequest, every Option field with
\* skip_serializing_if = "Option::is_none"
SerializeHTTPRequest(r) ==
    LET keys == HTTPRequiredFields \cup {k \in HTTPOptionalFields : r[k].some}
    IN  JObj([k \in keys |->
                IF k \in HTTPRequiredFields THEN HTTPFieldToJson(k, r[k])
                ELSE HTTPFieldToJson(k, r[k].v)])

\* RequestBuilder::json(&request)
Serialize(r) ==
    IF r.struct = "HTTPRequest" THEN SerializeHTTPRequest(r) ELSE SerializeLLMRequest(r)

----------------------------------------------------------------------------
(* Response types and their serde::Deserialize implementations *)

\* An HTTP body is either text that is no JSON document or a JSON document.
RawText(s) == [json |-> FALSE, s |-> s]
RawJson(v) == [json |-> TRUE, v |-> v]

\* serde_json::from_slice up to the Value level
ParseJson(raw) == IF raw.json THEN Ok(raw.v) ELSE Err("expected value")

\* cost_usd: Option<f64> with #[serde(default)]; x is None when the key is absent.
\* Costs are carried in millionths of a dollar.
DeserializeCost(x) ==
    IF ~x.some \/ x.v.t = "null" THEN Ok(None)
    ELSE IF x.v.t = "num" THEN Ok(Some(x.v.n))
    ELSE Err("invalid type")

\* the five fields of Meta, each Some(json) or None when missing
MetaFromFields(rid, ch, ih, cost, dur) ==
    IF ~rid.some \/ ~ch.some \/ ~ih.some \/ ~dur.some THEN Err("missing field")
    ELSE IF rid.v.t # "str" \/ ch.v.t # "bool" \/ ih.v.t # "bool" \/ dur.v.t # "num"
         THEN Err("invalid type")
    ELSE IF dur.v.n < 0 THEN Err("invalid value")
    ELSE IF ~DeserializeCost(cost).ok THEN Err("invalid type")
    ELSE Ok([request_id |-> rid.v.s, cache_hit |-> ch.v.b, idempotent_hit |-> ih.v.b,
             cost_usd |-> DeserializeCost(cost).v, duration_ms |-> dur.v.n])

\* #[derive(Deserialize)] struct Meta: from a JSON object (unknown keys are
\* ignored) or from a JSON array of the fields in declaration order
DeserializeMeta(v) ==
    CASE v.t = "obj" ->
            MetaFromFields(GetKey(v, "request_id"), GetKey(v, "cache_hit"),
                           GetKey(v, "idempotent_hit"), GetKey(v, "cost_usd"),
                           GetKey(v, "duration_ms"))
      [] v.t = "arr" ->
            IF Len(v.a) # 5 THEN Err("invalid length")
            ELSE MetaFromFields(Some(v.a[1]), Some(v.a[2]), Some(v.a[3]),
                                Some(v.a[4]), Some(v.a[5]))
      [] OTHER -> Err("invalid type")

EnvelopeFromFields(data, meta) ==
    IF ~data.some \/ ~meta.some THEN Err("missing field")
    ELSE IF ~DeserializeMeta(meta.v).ok THEN DeserializeMeta(meta.v)
    ELSE Ok([data |-> data.v, meta |-> DeserializeMeta(meta.v).v])

\* #[derive(Deserialize)] struct ReliAPIResponse
DeserializeReliAPIResponse(v) ==
    CASE v.t = "obj" -> EnvelopeFromFields(GetKey(v, "data"), GetKey(v, "meta"))
      [] v.t = "arr" ->
            IF Len(v.a) # 2 THEN Err("invalid length")
            ELSE EnvelopeFromFields(Some(v.a[1]), Some(v.a[2]))
      [] OTHER -> Err("invalid type")

\* Response::json::<ReliAPIResponse>() applied to the outcome of reading the body
ResponseJson(body) ==
    IF ~body.ok THEN body
    ELSE IF ~ParseJson(body.v).ok THEN ParseJson(body.v)
    ELSE DeserializeReliAPIResponse(ParseJson(body.v).v)

\* Response::text() applied to the outcome of reading the body: the text as received
ResponseText(body) == body

\* StatusCode::is_success
is_success(status) == 200 <= status /\ status <= 299

----------------------------------------------------------------------------
(* llm_proxy_example: the nested lookup data.choices[0].message.content *)

\* .get("choices").and_then(|c| c.as_array())
ChoicesArray(data) ==
    IF GetKey(data, "choices").some THEN AsArray(GetKey(data, "choices").v) ELSE None

\* .get("content").and_then(|c| c.as_str())
ContentStr(message) ==
    IF GetKey(message, "content").some THEN AsStr(GetKey(message, "content").v) ELSE None

\* a variant that takes the content whatever its JSON type
ExtractContentAnyType(data) ==
    LET choices == ChoicesArray(data)
    IN  IF ~choices.some THEN None
        ELSE LET choice == GetIndex0(choices.v)
             IN  IF ~choice.some THEN None
                 ELSE LET message == GetKey(choice.v, "message")
                      IN  IF ~message.some THEN None
                          ELSE LET c == GetKey(message.v, "content")
                               IN  IF ~c.some THEN None
                                   ELSE IF c.v.t = "str" THEN Some(c.v.s) ELSE Some("")

ExtractContent(data) ==
    LET choices == ChoicesArray(data)
    IN  IF ~choices.some THEN None
        ELSE LET choice == GetIndex0(choices.v)
             IN  IF ~choice.some THEN None
                 ELSE LET message == GetKey(choice.v, "message")
                      IN  IF ~message.some THEN None
                          ELSE ContentStr(message.v)

----------------------------------------------------------------------------
(* The requests the four demonstrations build *)

UserMessage(text) == [role |-> "user", content |-> text]

\* format!("http-{}", ts) and format!("rust-example-{}", ts)
FormatKey(prefix, ts) == <<prefix, ts>>

\* http_proxy_example: let request = HTTPRequest { .. }
HttpProxyRequest(ts) ==
    [struct |-> "HTTPRequest", target |-> "jsonplaceholder", method |-> "GET",
     path |-> "/posts/1", headers |-> None, query |-> None, body |-> None,
     idempotency_key |-> Some(FormatKey("http-", ts)), cache |-> Some(HttpCacheTtl)]

\* llm_proxy_example: let request = LLMRequest { .. }
LlmProxyRequest(ts) ==
    [struct |-> "LLMRequest", target |-> "openai",
     messages |-> <<UserMessage("What is idempotency in API design? Explain in one sentence.")>>,
     model |-> "gpt-4o-mini", max_tokens |-> Some(LlmMaxTokens), temperature |-> None,
     stream |-> None, idempotency_key |-> Some(FormatKey("rust-example-", ts)),
     cache |-> Some(LlmCacheTtl)]

\* caching_example: let request = LLMRequest { .. }
CachingRequest ==
    [struct |-> "LLMRequest", target |-> "openai",
     messages |-> <<UserMessage("What is circuit breaker pattern?")>>,
     model |-> "gpt-4o-mini", max_tokens |-> Some(LlmMaxTokens), temperature |-> None,
     stream |-> None, idempotency_key |-> None, cache |-> Some(LlmCacheTtl)]

\* error_handling_example: let request = LLMRequest { .. }
ErrorHandlingRequest ==
    [struct |-> "LLMRequest", target |-> "openai", messages |-> <<UserMessage("Test")>>,
     model |-> "gpt-4o-mini", max_tokens |-> Some(ErrorMaxTokens), temperature |-> None,
     stream |-> None, idempotency_key |-> None, cache |-> None]

\* client.post(&format!("{}{}", url, endpoint)).header("X-RapidAPI-Key", api_key)
\*       .header("Content-Type", "application/json").json(&request)
Post(slot, base, endpoint, key, r) ==
    [slot |-> slot, url |-> base \o endpoint, endpoint |-> endpoint, key |-> key,
     content_type |-> "application/json", body |-> Serialize(r)]

----------------------------------------------------------------------------
(* Futures, locals and standard output *)

NoFuture == [st |-> "none"]
Pending(kind, slot) == [st |-> "pending", kind |-> kind, slot |-> slot]
Ready(kind, slot, val) == [st |-> "ready", kind |-> kind, slot |-> slot, val |-> val]

\* `.await`: the task resumes only when the awaited future has resolved
AwaitReady(f) == f.st = "ready"

NoRequest == [struct |-> "none"]
NoResp == [status |-> 0]
Unbound == "<unbound>"

\* one println!; `of` is the request slot the line reports on (0: none)
Line(slot, fmt, args) == [of |-> slot, fmt |-> fmt, args |-> args]

----------------------------------------------------------------------------
(* The environment: what the process environment and the network may hold *)

EnvValues(samples) == {Unset, NotUnicode} \cup {SetTo(x) : x \in samples}

\* every combination of the three variables
AllEnvs ==
    {[RELIAPI_URL |-> u, RAPIDAPI_KEY |-> k1, RELIAPI_API_KEY |-> k2] :
        u \in {Unset, SetTo("http://localhost:8000")},
        k1 \in EnvValues({"rapid-key"}),
        k2 \in EnvValues({"reli-key"})}

\* two environments: nothing set, and URL and primary key set
EnvSamples ==
    {[RELIAPI_URL |-> Unset, RAPIDAPI_KEY |-> Unset, RELIAPI_API_KEY |-> Unset],
     [RELIAPI_URL |-> SetTo("http://localhost:8000"), RAPIDAPI_KEY |-> SetTo("rapid-key"),
      RELIAPI_API_KEY |-> SetTo("reli-key")]}

TransportErrors == {"connection refused"}
Statuses == {200, 299, 300, 429}

\* what `.send().await` may yield
SendResults == {Err(e) : e \in TransportErrors} \cup {Ok(st) : st \in Statuses}

\* the `meta` object of an envelope; cost is None (key absent) or Some(json)
MetaJson(rid, ch, cost) ==
    IF cost.some
    THEN JObj([request_id |-> JStr(rid), cache_hit |-> JBool(ch),
               idempotent_hit |-> JBool(FALSE), cost_usd |-> cost.v,
               duration_ms |-> JNum(12)])
    ELSE JObj([request_id |-> JStr(rid), cache_hit |-> JBool(ch),
               idempotent_hit |-> JBool(FALSE), duration_ms |-> JNum(12)])

MetaSamples ==
    {MetaJson("req-a", FALSE, Some(JNum(2000))),
     MetaJson("req-b", TRUE, Some(JNum(0))),
     MetaJson("req-c", TRUE, None)}

\* {"choices": [{"message": {"content": c}}]}
ChatCompletion(c) ==
    JObj([choices |-> JArr(<<JObj([message |-> JObj([content |-> c])])>>)])

DataSamples ==
    {ChatCompletion(JStr("X")),
     ChatCompletion(JStr("Y")),
     JNull,
     JObj([id |-> JStr("cmpl-1")]),
     JObj([choices |-> JStr("none")]),
     JObj([choices |-> JArr(<<>>)]),
     JObj([choices |-> JArr(<<JObj([index |-> JNum(0)])>>)]),
     JObj([choices |-> JArr(<<JStr("X")>>)]),
     JObj([choices |-> JArr(<<JObj([message |-> JStr("X")])>>)]),
     JObj([choices |-> JArr(<<JObj([message |-> JObj([role |-> JStr("assistant")])])>>)]),
     ChatCompletion(JNum(7)),
     ChatCompletion(JNull)}

\* bodies that are envelopes: objects, and one in array form
WellFormedBodies ==
    {RawJson(JObj([data |-> d, meta |-> m])) : d \in DataSamples, m \in MetaSamples}
    \cup {RawJson(JArr(<<ChatCompletion(JStr("X")),
                         JArr(<<JStr("req-a"), JBool(FALSE), JBool(FALSE), JNull, JNum(12)>>)>>))}

\* bodies that are no envelope
MalformedBodies ==
    {RawText("<html>502 Bad Gateway</html>"),
     RawJson(JNull),
     RawJson(JObj([data |-> JNull])),
     RawJson(JObj([meta |-> MetaJson("req-a", FALSE, None)])),
     RawJson(JObj([data |-> JNull,
                   meta |-> JObj([cache_hit |-> JBool(FALSE), idempotent_hit |-> JBool(FALSE),
                                  duration_ms |-> JNum(12)])])),
     RawJson(JObj([data |-> JNull,
                   meta |-> JObj([request_id |-> JStr("req-a"), cache_hit |-> JStr("no"),
                                  idempotent_hit |-> JBool(FALSE), duration_ms |-> JNum(12)])])),
     RawJson(JObj([data |-> JNull, meta |-> MetaJson("req-a", FALSE, Some(JStr("free")))])),
     RawJson(JArr(<<JNull>>))}

ErrorBodies == {RawText("rate limited")}

BodyReadErrors == {"connection reset"}

\* a smaller choice of bodies: two envelopes and one body that is none
FewWellFormedBodies ==
    {RawJson(JObj([data |-> ChatCompletion(JStr("X")),
                   meta |-> MetaJson("req-a", FALSE, Some(JNum(2000)))])),
     RawJson(JObj([data |-> JNull, meta |-> MetaJson("req-b", TRUE, None)]))}

FewMalformedBodies == {RawText("<html>502 Bad Gateway</html>")}

\* what reading the body of a response may yield, by the class of its status,
\* the bodies of a 2xx response drawn from `bodies`
BodyResults(class, bodies) ==
    {Err(e) : e \in BodyReadErrors}
    \cup {Ok(b) : b \in (IF class = "2xx" THEN bodies ELSE ErrorBodies)}

----------------------------------------------------------------------------
(* Initial states *)

InitWith(envs) ==
    /\ env \in envs
    /\ url = Unbound
    /\ api_key = Unbound
    /\ pc = "main"
    /\ request = NoRequest
    /\ resp = NoResp
    /\ fut = NoFuture
    /\ out = <<>>
    /\ sent = <<>>
    /\ net = [i \in Slots |-> "unsent"]
    /\ now = 1
    /\ outcome = [i \in Slots |-> "none"]

Init == InitWith(EnvSamples)

----------------------------------------------------------------------------
(* The network *)

\* the pending `.send()` resolves: a transport error or a response head
NetSendResolves ==
    /\ fut.st = "pending"
    /\ fut.kind = "send"
    /\ \E r \in SendResults :
        /\ fut' = Ready("send", fut.slot, r)
        /\ outcome' = [outcome EXCEPT ![fut.slot] =
                          IF ~r.ok THEN "transport"
                          ELSE IF r.v \in 200..299 THEN "2xx" ELSE "non2xx"]
        /\ net' = IF r.ok THEN net ELSE [net EXCEPT ![fut.slot] = "closed"]
    /\ UNCHANGED <<env, url, api_key, pc, request, resp, out, sent, now>>

\* the pending body read resolves: the whole body or a read error
BodyResolves(wellformed, malformed) ==
    /\ fut.st = "pending"
    /\ fut.kind \in {"json", "text"}
    /\ \E b \in BodyResults(outcome[fut.slot], wellformed \cup malformed) :
        /\ fut' = Ready(fut.kind, fut.slot, b)
        /\ outcome' = [outcome EXCEPT ![fut.slot] =
                          IF outcome[fut.slot] = "2xx"
                          THEN IF b.ok /\ b.v \in wellformed
                               THEN "2xx_envelope" ELSE "2xx_malformed"
                          ELSE IF b.ok THEN "non2xx_text" ELSE "non2xx_unreadable"]
    /\ net' = [net EXCEPT ![fut.slot] = "closed"]
    /\ UNCHANGED <<env, url, api_key, pc, request, resp, out, sent, now>>

NetBodyResolves == BodyResolves(WellFormedBodies, MalformedBodies)

NetBodyResolvesFew == BodyResolves(FewWellFormedBodies, FewMalformedBodies)

----------------------------------------------------------------------------
(* Steps shared by the demonstrations *)

\* build the request, post it and suspend on `.send().await`
Send(slot, endpoint, r, lines, at) ==
    /\ request' = r
    /\ sent' = Append(sent, Post(slot, url, endpoint, api_key, r))
    /\ net' = [net EXCEPT ![slot] = "open"]
    /\ fut' = Pending("send", slot)
    /\ out' = out \o lines
    /\ pc' = at
    /\ UNCHANGED <<env, url, api_key, resp, outcome>>

\* keep the response head and suspend on `resp.json().await` / `resp.text().await`;
\* the status printed after text() is the one of this head
AwaitBody(slot, kind, status, at) ==
    /\ fut' = Pending(kind, slot)
    /\ resp' = [status |-> status]
    /\ pc' = at
    /\ UNCHANGED <<env, url, api_key, request, out, sent, net, now, outcome>>

\* print, drop the locals and go on with the caller
Return(slot, lines, next) ==
    /\ out' = out \o lines
    /\ pc' = next
    /\ fut' = NoFuture
    /\ resp' = NoResp
    /\ net' = [net EXCEPT ![slot] = "closed"]
    /\ UNCHANGED <<env, url, api_key, request, sent, now, outcome>>

\* `.unwrap()` on an Err: the task panics and the process ends
Panic(slot) ==
    /\ pc' = "panicked"
    /\ fut' = NoFuture
    /\ resp' = NoResp
    /\ net' = [net EXCEPT ![slot] = "closed"]
    /\ UNCHANGED <<env, url, api_key, request, out, sent, now, outcome>>

\* {:.6} of a cost carried in millionths: integer part and six decimals
Fixed6(c) == <<c \div 1000000, c % 1000000>>

\* Option::unwrap_or
UnwrapOr(x, d) == IF x.some THEN x.v ELSE d

----------------------------------------------------------------------------
(* main, up to the first call *)

main_start ==
    /\ pc = "main"
    /\ out' = Append(out, Line(0, "ReliAPI Rust Example\n", <<>>))
    /\ url' = get_reliapi_url(env)
    /\ api_key' = get_api_key(env)
    /\ pc' = "http_send"
    /\ UNCHANGED <<env, request, resp, fut, sent, net, now, outcome>>

----------------------------------------------------------------------------
(* http_proxy_example *)

http_proxy_example_send ==
    /\ pc = "http_send"
    /\ \E ts \in now..MaxClock :
        /\ now' = ts
        /\ Send(1, "/proxy/http", HttpProxyRequest(ts),
                <<Line(0, "=== HTTP Proxy Example ===", <<>>)>>, "http_await")

\* a variant that unwraps the result of send()
http_proxy_example_resume_unwrap ==
    /\ pc = "http_await"
    /\ AwaitReady(fut)
    /\ IF fut.val.ok
       THEN AwaitBody(1, IF is_success(fut.val.v) THEN "json" ELSE "text",
                      fut.val.v, "http_body")
       ELSE Panic(1)

\* match response { Ok(resp) => .., Err(e) => println!("Request error: {}", e) }
http_proxy_example_resume ==
    /\ pc = "http_await"
    /\ AwaitReady(fut)
    /\ IF fut.val.ok
       THEN AwaitBody(1, IF is_success(fut.val.v) THEN "json" ELSE "text",
                      fut.val.v, "http_body")
       ELSE Return(1, <<Line(1, "Request error: {}", <<fut.val.e>>)>>, "llm_send")

http_proxy_example_body ==
    /\ pc = "http_body"
    /\ AwaitReady(fut)
    /\ IF fut.kind = "json"
       THEN LET data == ResponseJson(fut.val)
            IN  IF data.ok
                THEN Return(1, <<Line(1, "Success: Cache hit: {}, Request ID: {}",
                                      <<data.v.meta.cache_hit, data.v.meta.request_id>>)>>,
                            "llm_send")
                ELSE Panic(1)
       ELSE LET text == ResponseText(fut.val)
            IN  IF text.ok
                THEN Return(1, <<Line(1, "Error: {} - {}", <<resp.status, text.v>>)>>,
                            "llm_send")
                ELSE Panic(1)

----------------------------------------------------------------------------
(* llm_proxy_example *)

llm_proxy_example_send ==
    /\ pc = "llm_send"
    /\ \E ts \in now..MaxClock :
        /\ now' = ts
        /\ Send(2, "/proxy/llm", LlmProxyRequest(ts),
                <<Line(0, "\n=== LLM Proxy Example ===", <<>>)>>, "llm_await")

llm_proxy_example_resume ==
    /\ pc = "llm_await"
    /\ AwaitReady(fut)
    /\ IF fut.val.ok
       THEN AwaitBody(2, IF is_success(fut.val.v) THEN "json" ELSE "text",
                      fut.val.v, "llm_body")
       ELSE Return(2, <<Line(2, "Request error: {}", <<fut.val.e>>)>>, "cache1_send")

\* the lines printed for a deserialized envelope
LlmSuccessLines(data) ==
    (IF ExtractContent(data.data).some
     THEN <<Line(2, "Response: {}", <<ExtractContent(data.data).v>>)>> ELSE <<>>)
    \o (IF data.meta.cost_usd.some
        THEN <<Line(2, "Cost: ${:.6}", <<Fixed6(data.meta.cost_usd.v)>>)>> ELSE <<>>)
    \o <<Line(2, "Cache hit: {}", <<data.meta.cache_hit>>),
         Line(2, "Request ID: {}", <<data.meta.request_id>>)>>

llm_proxy_example_body ==
    /\ pc = "llm_body"
    /\ AwaitReady(fut)
    /\ IF fut.kind = "json"
       THEN LET data == ResponseJson(fut.val)
            IN  IF data.ok
                THEN Return(2, LlmSuccessLines(data.v), "cache1_send")
                ELSE Panic(2)
       ELSE LET text == ResponseText(fut.val)
            IN  IF text.ok
                THEN Return(2, <<Line(2, "Error: {} - {}", <<resp.status, text.v>>)>>,
                            "cache1_send")
                ELSE Panic(2)

----------------------------------------------------------------------------
(* caching_example *)

\* a variant that sends both requests before awaiting either
caching_example_send1_both ==
    /\ pc = "cache1_send"
    /\ request' = CachingRequest
    /\ sent' = sent \o <<Post(3, url, "/proxy/llm", api_key, CachingRequest),
                         Post(4, url, "/proxy/llm", api_key, CachingRequest)>>
    /\ net' = [net EXCEPT ![3] = "open", ![4] = "open"]
    /\ fut' = Pending("send", 3)
    /\ out' = out \o <<Line(0, "\n=== Caching Example ===", <<>>),
                       Line(0, "First request (will call OpenAI API):", <<>>)>>
    /\ pc' = "cache1_await"
    /\ UNCHANGED <<env, url, api_key, resp, outcome, now>>

caching_example_send1 ==
    /\ pc = "cache1_send"
    /\ now' = now
    /\ Send(3, "/proxy/llm", CachingRequest,
            <<Line(0, "\n=== Caching Example ===", <<>>),
              Line(0, "First request (will call OpenAI API):", <<>>)>>, "cache1_await")

\* if let Ok(resp) = resp1 { if resp.status().is_success() { .. } }
caching_example_resume1 ==
    /\ pc = "cache1_await"
    /\ AwaitReady(fut)
    /\ IF fut.val.ok /\ is_success(fut.val.v)
       THEN AwaitBody(3, "json", fut.val.v, "cache1_body")
       ELSE Return(3, <<>>, "cache2_send")

CacheLine(slot, meta) ==
    Line(slot, "Cache hit: {}, Cost: ${:.6}",
         <<meta.cache_hit, Fixed6(UnwrapOr(meta.cost_usd, 0))>>)

\* a variant that skips the second call once the first was served from the cache
caching_example_body1_skip ==
    /\ pc = "cache1_body"
    /\ AwaitReady(fut)
    /\ LET data1 == ResponseJson(fut.val)
       IN  IF data1.ok
           THEN Return(3, <<CacheLine(3, data1.v.meta)>>,
                       IF data1.v.meta.cache_hit THEN "err_send" ELSE "cache2_send")
           ELSE Panic(3)

\* a variant that reports a body that is no envelope and goes on
caching_example_body1_lenient ==
    /\ pc = "cache1_body"
    /\ AwaitReady(fut)
    /\ LET data1 == ResponseJson(fut.val)
       IN  IF data1.ok
           THEN Return(3, <<CacheLine(3, data1.v.meta)>>, "cache2_send")
           ELSE Return(3, <<Line(3, "Malformed response: {}", <<data1.e>>)>>, "cache2_send")

caching_example_body1 ==
    /\ pc = "cache1_body"
    /\ AwaitReady(fut)
    /\ LET data1 == ResponseJson(fut.val)
       IN  IF data1.ok
           THEN Return(3, <<CacheLine(3, data1.v.meta)>>, "cache2_send")
           ELSE Panic(3)

caching_example_send2 ==
    /\ pc = "cache2_send"
    /\ now' = now
    /\ Send(4, "/proxy/llm", request,
            <<Line(0, "\nSecond request (same question - should be cached, FREE!):", <<>>)>>,
            "cache2_await")

caching_example_resume2 ==
    /\ pc = "cache2_await"
    /\ AwaitReady(fut)
    /\ IF fut.val.ok /\ is_success(fut.val.v)
       THEN AwaitBody(4, "json", fut.val.v, "cache2_body")
       ELSE Return(4, <<>>, "err_send")

caching_example_body2 ==
    /\ pc = "cache2_body"
    /\ AwaitReady(fut)
    /\ LET data2 == ResponseJson(fut.val)
       IN  IF data2.ok
           THEN Return(4, <<CacheLine(4, data2.v.meta)>>
                          \o (IF data2.v.meta.cache_hit
                              THEN <<Line(4, "Second request was FREE (served from cache)!", <<>>)>>
                              ELSE <<>>),
                       "err_send")
           ELSE Panic(4)

----------------------------------------------------------------------------
(* error_handling_example *)

\* a variant that does not await the request it posts
error_handling_example_send_detached ==
    /\ pc = "err_send"
    /\ now' = now
    /\ Send(5, "/proxy/llm", ErrorHandlingRequest,
            <<Line(0, "\n=== Error Handling Example ===", <<>>)>>, "banner")

error_handling_example_send ==
    /\ pc = "err_send"
    /\ now' = now
    /\ Send(5, "/proxy/llm", ErrorHandlingRequest,
            <<Line(0, "\n=== Error Handling Example ===", <<>>)>>, "err_await")

\* a variant that posts the request again after a transport error
error_handling_example_resume_retry ==
    /\ pc = "err_await"
    /\ AwaitReady(fut)
    /\ IF fut.val.ok
       THEN IF is_success(fut.val.v)
            THEN Return(5, <<Line(5, "Success!", <<>>)>>, "banner")
            ELSE AwaitBody(5, "text", fut.val.v, "err_body")
       ELSE Return(5, <<Line(5, "Request error: {}", <<fut.val.e>>)>>, "err_send")

error_handling_example_resume ==
    /\ pc = "err_await"
    /\ AwaitReady(fut)
    /\ IF fut.val.ok
       THEN IF is_success(fut.val.v)
            THEN Return(5, <<Line(5, "Success!", <<>>)>>, "banner")
            ELSE AwaitBody(5, "text", fut.val.v, "err_body")
       ELSE Return(5, <<Line(5, "Request error: {}", <<fut.val.e>>)>>, "banner")

error_handling_example_body ==
    /\ pc = "err_body"
    /\ AwaitReady(fut)
    /\ LET text == ResponseText(fut.val)
       IN  IF text.ok
           THEN Return(5, <<Line(5, "Error: {} - {}", <<resp.status, text.v>>)>>, "banner")
           ELSE Panic(5)

----------------------------------------------------------------------------
(* main, after the last call *)

BannerLines ==
    <<Line(0, "\n=== Examples Completed ===", <<>>),
      Line(0, "\nBenefits of ReliAPI:", <<>>),
      Line(0, "  Automatic retries on failures", <<>>),
      Line(0, "  Caching reduces costs by 50-80%", <<>>),
      Line(0, "  Idempotency prevents duplicate charges", <<>>),
      Line(0, "  Budget caps prevent surprise bills", <<>>),
      Line(0, "  Circuit breaker prevents cascading failures", <<>>)>>

main_banner ==
    /\ pc = "banner"
    /\ out' = out \o BannerLines
    /\ pc' = "done"
    /\ UNCHANGED <<env, url, api_key, request, resp, fut, sent, net, now, outcome>>

----------------------------------------------------------------------------
(* Specifications *)

TaskStep ==
    \/ main_start
    \/ http_proxy_example_send
    \/ http_proxy_example_resume
    \/ http_proxy_example_body
    \/ llm_proxy_example_send
    \/ llm_proxy_example_resume
    \/ llm_proxy_example_body
    \/ caching_example_send1
    \/ caching_example_resume1
    \/ caching_example_body1
    \/ caching_example_send2
    \/ caching_example_resume2
    \/ caching_example_body2
    \/ error_handling_example_send
    \/ error_handling_example_resume
    \/ error_handling_example_body
    \/ main_banner

NetworkStep ==
    \/ NetSendResolves
    \/ NetBodyResolves

Next == TaskStep \/ NetworkStep

\* safety: the network may leave a request unresolved for ever
Spec == Init /\ [][Next]_vars

\* the same task against the smaller choice of bodies
NetworkStepFew ==
    \/ NetSendResolves
    \/ NetBodyResolvesFew

NextFew == TaskStep \/ NetworkStepFew

\* the runtime resumes a task whose future is ready, and every request resolves
FairSpec == Init /\ [][NextFew]_vars /\ WF_vars(TaskStep) /\ WF_vars(NetworkStepFew)

\* every combination of the environment variables
ConfigInit == InitWith(AllEnvs)
ConfigSpec == ConfigInit /\ [][NextFew]_vars

----------------------------------------------------------------------------
(* Serialization on its own: RequestBuilder::json applied to any request *)

OptionOf(samples) == {None} \cup {Some(x) : x \in samples}

AllHTTPRequests ==
    {[struct |-> "HTTPRequest", target |-> "jsonplaceholder", method |-> "GET",
      path |-> "/posts/1", headers |-> h, query |-> q, body |-> b,
      idempotency_key |-> k, cache |-> c] :
        h \in OptionOf({<<>>, [Accept |-> "application/json"]}),
        q \in OptionOf({[page |-> "1"]}),
        b \in OptionOf({"", "{}"}),
        k \in OptionOf({FormatKey("http-", 1)}),
        c \in OptionOf({0, HttpCacheTtl})}

AllLLMRequests ==
    {[struct |-> "LLMRequest", target |-> "openai", messages |-> <<UserMessage("Test")>>,
      model |-> "gpt-4o-mini", max_tokens |-> m, temperature |-> t, stream |-> s,
      idempotency_key |-> k, cache |-> c] :
        m \in OptionOf({LlmMaxTokens}),
        t \in OptionOf({0}),
        s \in OptionOf({FALSE, TRUE}),
        k \in OptionOf({FormatKey("rust-example-", 1)}),
        c \in OptionOf({0, LlmCacheTtl})}

SerInit ==
    /\ env \in EnvSamples
    /\ url = get_reliapi_url(env)
    /\ api_key = get_api_key(env)
    /\ pc = "json"
    /\ request \in AllHTTPRequests \cup AllLLMRequests
    /\ resp = NoResp
    /\ fut = NoFuture
    /\ out = <<>>
    /\ sent = <<>>
    /\ net = [i \in Slots |-> "unsent"]
    /\ now = 1
    /\ outcome = [i \in Slots |-> "none"]

\* .json(&request): the request becomes the body of the message
json_request ==
    /\ pc = "json"
    /\ sent' = Append(sent, Post(0, url,
                  IF request.struct = "HTTPRequest" THEN "/proxy/http" ELSE "/proxy/llm",
                  api_key, request))
    /\ pc' = "json_done"
    /\ UNCHANGED <<env, url, api_key, request, resp, fut, out, net, now, outcome>>

SerNext == json_request

SerSpec == SerInit /\ [][SerNext]_vars

----------------------------------------------------------------------------
(* Vocabulary of the properties *)

\* the task has taken up the outcome of request slot i (printed, skipped or panicked)
Handled(i) == outcome[i] # "none" /\ (fut.st = "none" \/ fut.slot # i)

\* some line printed for slot i has this format
Printed(i, fmt) == \E j \in 1..Len(out) : out[j].of = i /\ out[j].fmt = fmt

BannerPrinted == \E j \in 1..Len(out) : out[j].fmt = "\n=== Examples Completed ==="

\* the position of the line with this format, 0 when there is none
LineAt(fmt) ==
    IF \E j \in 1..Len(out) : out[j].fmt = fmt
    THEN CHOOSE j \in 1..Len(out) : out[j].fmt = fmt
    ELSE 0

\* how many requests of these slots are on the wire log
SentCount(slots) == Cardinality({k \in 1..Len(sent) : sent[k].slot \in slots})

EndpointCount(endpoint) == Cardinality({k \in 1..Len(sent) : sent[k].endpoint = endpoint})

\* the slots of the requests sent, in order
SentSlots == [k \in 1..Len(sent) |-> sent[k].slot]

----------------------------------------------------------------------------
\* C1: every failed request is reported on the console: a transport failure
\* prints the transport error text, a non-2xx response prints the status code
\* and the body; no failed request is handled without a printed report.
C1_EveryFailureReported ==
    \A i \in Slots :
        /\ (Handled(i) /\ outcome[i] = "transport") =>
              \E j \in 1..Len(out) :
                  /\ out[j].of = i
                  /\ out[j].fmt = "Request error: {}"
                  /\ out[j].args[1] \in TransportErrors
        /\ (Handled(i) /\ outcome[i] \in {"non2xx", "non2xx_text"}) =>
              \E j \in 1..Len(out) :
                  /\ out[j].of = i
                  /\ out[j].fmt = "Error: {} - {}"
                  /\ out[j].args[1] \in Statuses \ (200..299)
                  /\ out[j].args[2] \in ErrorBodies

----------------------------------------------------------------------------
\* C2: with every request resolving to a transport error, a non-2xx response
\* with a readable body or a well-formed 2xx envelope, the program runs the four
\* demonstrations in turn and eventually prints the "Examples Completed" banner.
AllDemonstrationsRan ==
    /\ 0 < LineAt("=== HTTP Proxy Example ===")
    /\ LineAt("=== HTTP Proxy Example ===") < LineAt("\n=== LLM Proxy Example ===")
    /\ LineAt("\n=== LLM Proxy Example ===") < LineAt("\n=== Caching Example ===")
    /\ LineAt("\n=== Caching Example ===") < LineAt("\n=== Error Handling Example ===")
    /\ LineAt("\n=== Error Handling Example ===") < LineAt("\n=== Examples Completed ===")

UnreadableOutcome == \E i \in Slots : outcome[i] \in {"2xx_malformed", "non2xx_unreadable"}

C2_FailuresNeverAbort ==
    <>((pc = "done" /\ AllDemonstrationsRan /\ SentSlots = <<1, 2, 3, 4, 5>>)
       \/ UnreadableOutcome)

C2_Witness ==
    /\ pc = "done"
    /\ BannerPrinted
    /\ outcome[1] = "transport"
    /\ outcome[3] = "non2xx"
    /\ outcome[5] = "non2xx_text"
    /\ ~UnreadableOutcome

----------------------------------------------------------------------------
\* C3: at most one request is in flight at any time; a request is issued only
\* after the previous one has resolved and been handled; the issue order is
\* HTTP proxy, LLM proxy, first cache call, second cache call, error path.
C3_StrictlySequential ==
    /\ Cardinality({i \in Slots : net[i] = "open"}) <= 1
    /\ \A k \in 1..Len(sent) : sent[k].slot = k
    /\ \A k \in 1..Len(sent) :
          sent[k].endpoint = (IF k = 1 THEN "/proxy/http" ELSE "/proxy/llm")
    /\ \A i \in 2..5 :
          net[i] # "unsent" => (net[i - 1] = "closed" /\ Handled(i - 1))
    /\ \A i \in Slots : (net[i] = "unsent") <=> (i > Len(sent))

C3_Witness ==
    /\ net[4] = "open"
    /\ fut.st = "pending"
    /\ outcome[3] = "2xx_envelope"
    /\ outcome[2] = "transport"

----------------------------------------------------------------------------
\* C4: no retry: every request slot is sent at most once, so at most five
\* requests are sent (one to /proxy/http, four to /proxy/llm), a failed slot
\* is never sent again, and a demonstration that has run to its end has sent
\* a number of requests that does not depend on the outcomes.
C4_NoRetry ==
    /\ Len(sent) <= 5
    /\ \A i \in Slots : SentCount({i}) <= 1
    /\ EndpointCount("/proxy/http") <= 1
    /\ EndpointCount("/proxy/llm") <= 4
    /\ \A k \in 1..Len(sent) : sent[k].endpoint \in {"/proxy/http", "/proxy/llm"}
    /\ pc \in {"llm_send", "llm_await", "llm_body"} => Len(sent) \in {1, 2}
    /\ pc \in {"cache1_send", "cache1_await", "cache1_body"} => Len(sent) \in {2, 3}
    /\ pc \in {"cache2_send", "cache2_await", "cache2_body"} => Len(sent) \in {3, 4}
    /\ pc \in {"err_send", "err_await", "err_body"} => Len(sent) \in {4, 5}
    /\ pc \in {"banner", "done"} =>
          /\ SentCount({1}) = 1
          /\ SentCount({2}) = 1
          /\ SentCount({3, 4}) = 2
          /\ SentCount({5}) = 1

C4_Witness ==
    /\ pc = "done"
    /\ Len(sent) = 5
    /\ outcome[1] = "transport"
    /\ outcome[5] = "transport"
    /\ outcome[2] = "non2xx_text"

----------------------------------------------------------------------------
(* Reading an envelope body directly, without the deserializer *)

\* the `data` and `meta` members of a well-formed body, in object or array form
BodyData(raw) == IF raw.v.t = "obj" THEN raw.v.o.data ELSE raw.v.a[1]

BodyCacheHit(raw) ==
    IF raw.v.t = "obj" THEN raw.v.o.meta.o.cache_hit.b ELSE raw.v.a[2].a[2].b

\* the cost in millionths, 0 when the body carries none
BodyCostOrZero(raw) ==
    IF raw.v.t = "obj"
    THEN IF "cost_usd" \in DOMAIN raw.v.o.meta.o /\ raw.v.o.meta.o.cost_usd.t = "num"
         THEN raw.v.o.meta.o.cost_usd.n ELSE 0
    ELSE IF raw.v.a[2].a[4].t = "num" THEN raw.v.a[2].a[4].n ELSE 0

\* a ready json() future of this slot holding a well-formed envelope
EnvelopeReady(slot) ==
    /\ fut.st = "ready"
    /\ fut.kind = "json"
    /\ fut.slot = slot
    /\ fut.val.ok
    /\ fut.val.v \in WellFormedBodies

\* the lines the step has added to standard output
NewLines == SubSeq(out', Len(out) + 1, Len(out'))

----------------------------------------------------------------------------
\* C5: the cache demonstration sends the same payload (no idempotency key,
\* cache TTL 3600) twice, the second only after the first has resolved, whatever
\* the first outcome was; no call is merged or suppressed; each well-formed 2xx
\* envelope yields its own cache-hit/cost line with that response's metadata,
\* the first call's line before the second's.
C5_State ==
    /\ \A k \in 1..Len(sent) :
          sent[k].slot \in {3, 4} =>
              /\ "idempotency_key" \notin DOMAIN sent[k].body.o
              /\ "cache" \in DOMAIN sent[k].body.o
              /\ sent[k].body.o.cache = JNum(3600)
    /\ \A j, k \in 1..Len(sent) :
          (sent[j].slot = 3 /\ sent[k].slot = 4) =>
              /\ j < k
              /\ sent[j].body = sent[k].body
              /\ sent[j].url = sent[k].url
              /\ sent[j].key = sent[k].key
    /\ net[4] # "unsent" => (net[3] = "closed" /\ Handled(3))
    /\ (Handled(3) /\ outcome[3] \in {"transport", "non2xx", "2xx_envelope"}) =>
          /\ pc \in {"cache2_send", "cache2_await", "cache2_body", "err_send", "err_await",
                     "err_body", "banner", "done", "panicked"}
          /\ pc # "cache2_send" => SentCount({4}) = 1
    /\ \A j, k \in 1..Len(out) : (out[j].of = 3 /\ out[k].of = 4) => j < k
    /\ (Handled(3) /\ outcome[3] = "2xx_envelope") <=>
          Cardinality({j \in 1..Len(out) : out[j].of = 3}) = 1
    /\ (Handled(4) /\ outcome[4] = "2xx_envelope") <=>
          Cardinality({j \in 1..Len(out) :
                          out[j].of = 4 /\ out[j].fmt = "Cache hit: {}, Cost: ${:.6}"}) = 1

C5_Step ==
    /\ (pc = "cache1_body" /\ EnvelopeReady(3)) =>
          /\ Len(NewLines) = 1
          /\ NewLines[1].fmt = "Cache hit: {}, Cost: ${:.6}"
          /\ NewLines[1].args[1] = BodyCacheHit(fut.val.v)
          /\ NewLines[1].args[2] = <<0, BodyCostOrZero(fut.val.v)>>
          /\ pc' = "cache2_send"
    /\ (pc = "cache2_body" /\ EnvelopeReady(4)) =>
          /\ Len(NewLines) >= 1
          /\ NewLines[1].fmt = "Cache hit: {}, Cost: ${:.6}"
          /\ NewLines[1].args[1] = BodyCacheHit(fut.val.v)
          /\ NewLines[1].args[2] = <<0, BodyCostOrZero(fut.val.v)>>

C5_BothCacheCallsSent == []C5_State /\ [][C5_Step]_vars

C5_Witness ==
    /\ outcome[3] = "2xx_envelope"
    /\ outcome[4] = "2xx_envelope"
    /\ \E j, k \in 1..Len(out) :
          /\ out[j].of = 3
          /\ out[k].of = 4
          /\ out[j].args = <<FALSE, <<0, 2000>>>>
          /\ out[k].fmt = "Cache hit: {}, Cost: ${:.6}"
          /\ out[k].args = <<TRUE, <<0, 0>>>>

----------------------------------------------------------------------------
\* C6: while a request is unresolved the program stays at it: no later request
\* is issued, the banner is not printed, and the only step that can happen is
\* the network resolving that request; the client has no timeout or cancellation.
C6_State ==
    fut.st = "pending" =>
        /\ Len(sent) = fut.slot
        /\ \A i \in Slots : i > fut.slot => net[i] = "unsent"
        /\ ~BannerPrinted
        /\ pc \notin {"banner", "done", "panicked"}

C6_Step ==
    fut.st = "pending" =>
        /\ fut'.st = "ready"
        /\ fut'.slot = fut.slot
        /\ fut'.kind = fut.kind
        /\ pc' = pc
        /\ out' = out
        /\ sent' = sent

C6_HangsWhileUnresolved == []C6_State /\ [][C6_Step]_vars

C6_Witness ==
    /\ fut.st = "pending"
    /\ fut.kind = "send"
    /\ fut.slot = 3
    /\ pc = "cache1_await"

----------------------------------------------------------------------------
\* C7: the serialized HTTPRequest or LLMRequest has a key for an optional field
\* if and only if the field is present, never a null for an absent field, and
\* always the required fields.
RequiredOf(r) == IF r.struct = "HTTPRequest" THEN HTTPRequiredFields ELSE LLMRequiredFields
OptionalOf(r) == IF r.struct = "HTTPRequest" THEN HTTPOptionalFields ELSE LLMOptionalFields

C7_AbsentFieldsOmitted ==
    pc = "json_done" =>
        LET b == sent[Len(sent)].body
        IN  /\ b.t = "obj"
            /\ RequiredOf(request) \subseteq DOMAIN b.o
            /\ DOMAIN b.o \subseteq RequiredOf(request) \cup OptionalOf(request)
            /\ \A k \in OptionalOf(request) : (k \in DOMAIN b.o) <=> request[k].some
            /\ \A k \in DOMAIN b.o : b.o[k].t # "null"

C7_Witness ==
    /\ pc = "json_done"
    /\ request.struct = "LLMRequest"
    /\ ~request.temperature.some
    /\ ~request.idempotency_key.some
    /\ request.stream = Some(FALSE)
    /\ DOMAIN sent[1].body.o = {"target", "messages", "model", "stream"}

----------------------------------------------------------------------------
\* C8: for a well-formed 2xx envelope in the LLM-proxy demonstration the
\* "Response:" line is printed with exactly the string at
\* data.choices[0].message.content when the whole path exists with those types,
\* and not at all otherwise; the cache-hit and request-id lines are printed in
\* both cases and the program goes on to the next demonstration.
ContentPathExists(d) ==
    /\ d.t = "obj"
    /\ "choices" \in DOMAIN d.o
    /\ d.o.choices.t = "arr"
    /\ Len(d.o.choices.a) >= 1
    /\ d.o.choices.a[1].t = "obj"
    /\ "message" \in DOMAIN d.o.choices.a[1].o
    /\ d.o.choices.a[1].o.message.t = "obj"
    /\ "content" \in DOMAIN d.o.choices.a[1].o.message.o
    /\ d.o.choices.a[1].o.message.o.content.t = "str"

HasLine(lines, fmt) == \E j \in 1..Len(lines) : lines[j].fmt = fmt

C8_Step ==
    (pc = "llm_body" /\ EnvelopeReady(2)) =>
        LET d == BodyData(fut.val.v)
        IN  /\ ContentPathExists(d) =>
                  /\ NewLines[1].fmt = "Response: {}"
                  /\ NewLines[1].args = <<d.o.choices.a[1].o.message.o.content.s>>
            /\ Cardinality({j \in 1..Len(NewLines) : NewLines[j].fmt = "Response: {}"})
                  = (IF ContentPathExists(d) THEN 1 ELSE 0)
            /\ HasLine(NewLines, "Cache hit: {}")
            /\ HasLine(NewLines, "Request ID: {}")
            /\ \A j \in 1..Len(NewLines) :
                  NewLines[j].fmt = "Cache hit: {}" =>
                      NewLines[j].args = <<BodyCacheHit(fut.val.v)>>
            /\ pc' = "cache1_send"

C8_ContentExtraction == [][C8_Step]_vars

C8_Witness ==
    /\ pc = "cache1_send"
    /\ outcome[2] = "2xx_envelope"
    /\ \E j \in 1..Len(out) : out[j].fmt = "Response: {}" /\ out[j].args = <<"Y">>

----------------------------------------------------------------------------
\* C9 as stated: the key is RAPIDAPI_KEY when that variable is set, otherwise
\* RELIAPI_API_KEY when that one is set, otherwise the placeholder; key and
\* base URL are resolved once, and every request carries them.
IsSet(x) == x.st # "unset"

EveryRequestCarries(key, base) ==
    \A k \in 1..Len(sent) : sent[k].key = key /\ sent[k].url = base \o sent[k].endpoint

C9_PriorityWhenSet ==
    pc # "main" =>
        /\ IsSet(env.RAPIDAPI_KEY) =>
              (env.RAPIDAPI_KEY.st = "set" /\ api_key = env.RAPIDAPI_KEY.v)
        /\ (~IsSet(env.RAPIDAPI_KEY) /\ IsSet(env.RELIAPI_API_KEY)) =>
              (env.RELIAPI_API_KEY.st = "set" /\ api_key = env.RELIAPI_API_KEY.v)
        /\ (~IsSet(env.RAPIDAPI_KEY) /\ ~IsSet(env.RELIAPI_API_KEY)) =>
              api_key = PlaceholderKey
        /\ EveryRequestCarries(api_key, url)

\* C9 as amended: a variable counts only when it is set to valid Unicode.
Usable(x) == x.st = "set"

C9_PriorityWhenUsable ==
    pc # "main" =>
        /\ api_key # Unbound
        /\ url # Unbound
        /\ Usable(env.RAPIDAPI_KEY) => api_key = env.RAPIDAPI_KEY.v
        /\ (~Usable(env.RAPIDAPI_KEY) /\ Usable(env.RELIAPI_API_KEY)) =>
              api_key = env.RELIAPI_API_KEY.v
        /\ (~Usable(env.RAPIDAPI_KEY) /\ ~Usable(env.RELIAPI_API_KEY)) =>
              api_key = PlaceholderKey
        /\ url = (IF Usable(env.RELIAPI_URL) THEN env.RELIAPI_URL.v ELSE DefaultUrl)
        /\ EveryRequestCarries(api_key, url)

C9_Witness ==
    /\ pc = "done"
    /\ Len(sent) = 5
    /\ env.RAPIDAPI_KEY = NotUnicode
    /\ env.RELIAPI_API_KEY = SetTo("reli-key")
    /\ \A k \in 1..5 : sent[k].key = "reli-key"

----------------------------------------------------------------------------
\* C10: a 2xx response whose body is no envelope, in the HTTP-proxy call, the
\* LLM-proxy call or either cache call, is not reported: the task panics, no
\* line is printed for that response, no later request is issued and the banner
\* is never printed.  The error-path call never reads a 2xx body: any 2xx there
\* prints the success message and the program goes on to the banner.
C10_MalformedSuccessAborts ==
    /\ \A i \in 1..4 :
          outcome[i] = "2xx_malformed" =>
              /\ pc = "panicked" \/ (pc # "panicked" /\ fut.st = "ready" /\ fut.slot = i)
              /\ \A j \in 1..Len(out) : out[j].of # i
              /\ Len(sent) = i
              /\ ~BannerPrinted
    /\ outcome[5] \notin {"2xx_envelope", "2xx_malformed"}
    /\ (outcome[5] = "2xx" /\ Handled(5)) =>
          /\ Printed(5, "Success!")
          /\ pc \in {"banner", "done"}
          /\ pc = "done" => BannerPrinted
    /\ pc = "panicked" => UnreadableOutcome

C10_Witness ==
    /\ pc = "panicked"
    /\ outcome[4] = "2xx_malformed"
    /\ outcome[3] = "2xx_envelope"

====
